---- MODULE Spec2Model ----
(***************************************************************************)
(* Model of the request orchestration of the overlay application:          *)
(*   electron/ProcessingHelper.ts        (revision "current")              *)
(*   the retry-loop revision of the same class (revision "retry")          *)
(* A processing cycle is one call of processScreenshots.  Every await on a *)
(* remote request is a point where other handlers (another                 *)
(* processScreenshots call, cancelOngoingRequests, a config update) run.   *)
(***************************************************************************)
EXTENDS Naturals, Integers, Sequences, FiniteSets, TLC

\* ------------------------------------------------------------------ bounds
MaxCycles == 2
MaxQueue == 1
MaxCancelNotices == 2

\* ------------------------------------------------------- text as tokens
\* A string is a sequence of tokens; each token stands for a fixed run of
\* characters: FENCE for three backquotes, WORDJSON for the word json,
\* SPACE for white space, PROSE for a word of letters, CODEPUNCT for the
\* characters (a,b), JSNULL for null, JSNUM for the digit 7, JSEMPTYOBJ for
\* {}, PSOPEN for {"problem_statement":" , PSCLOSECODING for
\* ","problem_type":"coding"} , PSCLOSEMCQ for ","problem_type":"MCQ"} and
\* PSNUMBER for {"problem_statement":7} ; NEWLINE for a line feed (SPACE
\* is blank space within a line), BULLET for a hyphen, INSIGHTS for the
\* header Key Insights: and LONGTEXT for the words Use a hash map .
FENCE == "FENCE"
WORDJSON == "json"
SPACE == "SPACE"
PROSE == "Add"
CODEPUNCT == "(a,b)"
JSNULL == "null"
JSNUM == "7"
JSEMPTYOBJ == "{}"
PSOPEN == "PSOPEN"
PSCLOSECODING == "PSCLOSECODING"
PSCLOSEMCQ == "PSCLOSEMCQ"
PSNUMBER == "PSNUMBER"
NEWLINE == "NEWLINE"
BULLET == "-"
INSIGHTS == "Key Insights:"
LONGTEXT == "Use a hash map"

\* the characters the regular expression class for white space matches
IsSpace(tok) == tok \in {SPACE, NEWLINE}

\* String.prototype.length of a token
CharLen(tok) ==
  CASE tok = FENCE -> 3 [] tok = WORDJSON -> 4 [] tok = SPACE -> 1
    [] tok = PROSE -> 3 [] tok = CODEPUNCT -> 5 [] tok = JSNULL -> 4
    [] tok = JSNUM -> 1 [] tok = JSEMPTYOBJ -> 2 [] tok = PSOPEN -> 22
    [] tok = PSCLOSECODING -> 26 [] tok = PSCLOSEMCQ -> 23 [] tok = PSNUMBER -> 23
    [] tok = NEWLINE -> 1 [] tok = BULLET -> 1 [] tok = INSIGHTS -> 13
    [] tok = LONGTEXT -> 14

\* tokens that contain neither a quote nor a backslash nor a control
\* character, i.e. that may occur inside a JSON string literal
StringContentTokens ==
  {FENCE, WORDJSON, SPACE, PROSE, CODEPUNCT, JSNULL, JSNUM, JSEMPTYOBJ,
   BULLET, INSIGHTS, LONGTEXT}

\* String.prototype.trim on a token string
RECURSIVE TrimLeft(_)
TrimLeft(s) == IF s # <<>> /\ IsSpace(Head(s)) THEN TrimLeft(Tail(s)) ELSE s
RECURSIVE TrimRight(_)
TrimRight(s) == IF s # <<>> /\ IsSpace(s[Len(s)]) THEN TrimRight(SubSeq(s, 1, Len(s) - 1)) ELSE s
Trim(s) == TrimRight(TrimLeft(s))

\* The replace of the extraction parse (fence followed by json, or fence,
\* globally, by the empty string): every fence marker is removed,
\* together with the word json that directly follows it
RECURSIVE StripFences(_)
StripFences(s) ==
  IF s = <<>> THEN <<>>
  ELSE IF Head(s) = FENCE
       THEN IF Len(s) >= 2 /\ s[2] = WORDJSON
            THEN StripFences(SubSeq(s, 3, Len(s)))
            ELSE StripFences(Tail(s))
       ELSE <<Head(s)>> \o StripFences(Tail(s))

\* ------------------------------------------------------------ JS values
JNull == [t |-> "null"]
JUndefined == [t |-> "undefined"]
JNumber == [t |-> "number"]
JString(s) == [t |-> "string", v |-> s]
JObject(ps, ptype) == [t |-> "object", problem_statement |-> ps, problem_type |-> ptype]
SyntaxError == [t |-> "SyntaxError"]

\* JSON.parse on a token string: the documents the tokens can spell
JSONParse(s) ==
  IF s = <<JSNULL>> THEN JNull
  ELSE IF s # <<>> /\ \A i \in 1..Len(s) : s[i] = JSNUM THEN JNumber
  ELSE IF s = <<JSEMPTYOBJ>> THEN JObject(JUndefined, JUndefined)
  ELSE IF s = <<PSNUMBER>> THEN JObject(JNumber, JUndefined)
  ELSE IF /\ Len(s) >= 2
          /\ s[1] = PSOPEN
          /\ s[Len(s)] \in {PSCLOSECODING, PSCLOSEMCQ}
          /\ \A i \in 2..(Len(s) - 1) : s[i] \in StringContentTokens
       THEN JObject(JString(SubSeq(s, 2, Len(s) - 1)),
                    JString(IF s[Len(s)] = PSCLOSEMCQ THEN <<"MCQ">> ELSE <<"coding">>))
  ELSE SyntaxError

\* the try block of the extraction parse: strip, trim, JSON.parse
ParseExtraction(text) == JSONParse(Trim(StripFences(text)))

\* JS truthiness of a parsed JSON value (numbers here are non-zero)
Truthy(v) == v.t \in {"number", "object"} \/ (v.t = "string" /\ v.v # <<>>)


\* ------------------------------------------------------- remote responses
NoText == <<>>
RespStatus(n) == [kind |-> "status", status |-> n, finishReason |-> "", text |-> NoText]
RespNetwork == [kind |-> "network", status |-> 0, finishReason |-> "", text |-> NoText]
RespCancel == [kind |-> "cancel", status |-> 0, finishReason |-> "", text |-> NoText]
RespNoCandidates == [kind |-> "nocandidates", status |-> 200, finishReason |-> "", text |-> NoText]
RespNoContent == [kind |-> "nocontent", status |-> 200, finishReason |-> "STOP", text |-> NoText]
RespCandidate(fr, txt) == [kind |-> "candidate", status |-> 200, finishReason |-> fr, text |-> txt]

HttpErrorStatuses == {400, 403, 429, 500}
FailureResponses ==
  {RespStatus(n) : n \in HttpErrorStatuses} \cup {RespNetwork, RespNoCandidates, RespNoContent}
\* the texts a remote answer carries in a cycle: prose, clean and fenced
\* JSON of both problem types, and JSON documents without a usable
\* problem_statement
\* (the last one is clean JSON whose problem statement holds fence markers)
ExtractionTexts ==
  { <<PROSE, SPACE, PROSE>>,
    <<PSOPEN, PROSE, PSCLOSECODING>>,
    <<FENCE, WORDJSON, SPACE, PSOPEN, PROSE, PSCLOSEMCQ, SPACE, FENCE>>,
    <<JSNULL>>, <<JSNUM>>, <<JSEMPTYOBJ>>, <<PSNUMBER>>,
    <<PSOPEN, PSCLOSECODING>>,
    <<PSOPEN, FENCE, PROSE, FENCE, PSCLOSECODING>> }
SolutionTexts ==
  { <<>>,
    <<PROSE, CODEPUNCT>>,
    <<FENCE, WORDJSON, SPACE, CODEPUNCT, SPACE, FENCE, SPACE, PROSE>> }
\* answers to the solving request with an insights section: five long
\* bullets after a fenced block; a short bullet only, with no fence and a
\* line feed at the end; plain lines ended by an empty fenced block
FiveBullets ==
  <<FENCE, WORDJSON, NEWLINE, CODEPUNCT, NEWLINE, FENCE, NEWLINE, INSIGHTS, NEWLINE,
    BULLET, SPACE, LONGTEXT, NEWLINE, BULLET, SPACE, LONGTEXT, NEWLINE,
    BULLET, SPACE, LONGTEXT, NEWLINE, BULLET, SPACE, LONGTEXT, NEWLINE,
    BULLET, SPACE, LONGTEXT>>
InsightTexts ==
  { FiveBullets,
    <<INSIGHTS, NEWLINE, BULLET, SPACE, PROSE, NEWLINE>>,
    <<INSIGHTS, SPACE, LONGTEXT, NEWLINE, PROSE, NEWLINE, FENCE, NEWLINE, FENCE>> }
ExtractionResponses ==
  FailureResponses \cup {RespCandidate("MAX_TOKENS", <<PROSE>>)}
    \cup {RespCandidate("STOP", t) : t \in ExtractionTexts}
SolutionResponses ==
  FailureResponses \cup {RespCandidate("MAX_TOKENS", <<CODEPUNCT>>)}
    \cup {RespCandidate("STOP", t) : t \in SolutionTexts}
SolvingResponses ==
  SolutionResponses \cup {RespCandidate("STOP", t) : t \in InsightTexts}

\* ------------------------------------------------------- error messages
MsgKeyNotConfigured == "Gemini API key not configured"
MsgEmptyResponse == "Empty response from Gemini API"
MsgTruncated == "TRUNCATED_RESPONSE"
MsgRateLimit == "Gemini API rate limit exceeded. Please wait and try again."
MsgBadRequest == "Invalid request to Gemini API. Please check your screenshots."
MsgForbidden == "Invalid Gemini API key or insufficient permissions."
MsgGeneric == "Failed to process with Gemini API. Please try again."
MsgParse == "Failed to parse problem information. Please try again or use clearer screenshots."
MsgCanceled == "Processing was canceled by the user."
MsgAxiosCanceled == "canceled"
MsgAxiosStatus == "Request failed with status code"
MsgAxiosNetwork == "Network Error"
MsgNoValidFiles == "No valid screenshot files found"
MsgLoadFailed == "Failed to load screenshot data"
MsgLoadFailedDebug == "Failed to load screenshot data for debugging"
MsgNoProblemInfo == "No problem info available"
MsgTypeErrorNull == "Cannot read properties of null (reading 'problem_type')"
MsgTypeErrorParts == "Cannot read properties of undefined (reading 'parts')"

\* result.error?.includes("API Key") || result.error?.includes("Gemini"),
\* tabulated over the messages a result can carry
MentionsApiKey(msg) ==
  msg \in {MsgKeyNotConfigured, MsgEmptyResponse, MsgRateLimit, MsgBadRequest,
           MsgForbidden, MsgGeneric}

\* ------------------------------------------------------ makeGeminiRequest
Thrown(msg, status, cancel) ==
  [threw |-> TRUE, cancel |-> cancel, status |-> status, message |-> msg, text |-> NoText]
Returned(txt) ==
  [threw |-> FALSE, cancel |-> FALSE, status |-> 200, message |-> "", text |-> txt]

\* the try block: the post and the inspection of the response
RequestTry(resp) ==
  IF resp.kind = "cancel" THEN Thrown(MsgAxiosCanceled, 0, TRUE)
  ELSE IF resp.kind = "status" THEN Thrown(MsgAxiosStatus, resp.status, FALSE)
  ELSE IF resp.kind = "network" THEN Thrown(MsgAxiosNetwork, 0, FALSE)
  ELSE IF resp.kind = "nocandidates" THEN Thrown(MsgEmptyResponse, 0, FALSE)
  ELSE IF resp.finishReason = "MAX_TOKENS" THEN Thrown(MsgTruncated, 0, FALSE)
  ELSE IF resp.kind = "nocontent" THEN Thrown(MsgTypeErrorParts, 0, FALSE)
  ELSE Returned(resp.text)

\* the catch block: everything thrown in the try block passes through it
RequestCatch(e) ==
  IF e.cancel THEN e
  ELSE IF e.status = 429 THEN Thrown(MsgRateLimit, 0, FALSE)
  ELSE IF e.status = 400 THEN Thrown(MsgBadRequest, 0, FALSE)
  ELSE IF e.status = 403 THEN Thrown(MsgForbidden, 0, FALSE)
  ELSE Thrown(MsgGeneric, 0, FALSE)

makeGeminiRequest(resp) ==
  LET r == RequestTry(resp) IN IF r.threw THEN RequestCatch(r) ELSE r

\* ------------------------------------------------------------------ state
Null == "null"
ApiKey == "key"
NoController == 0
\* ConfigHelper.defaultConfig; the opacity is counted in tenths
defaultConfig ==
  [apiKey |-> "", apiProvider |-> "gemini",
   extractionModel |-> "gemini-2.5-flash", solutionModel |-> "gemini-2.5-flash",
   debuggingModel |-> "gemini-2.5-flash", language |-> "python", opacity |-> 10]
ModelFields == {"extractionModel", "solutionModel", "debuggingModel"}
\* sanitizeModelSelection: a model outside the allowed list becomes the default
allowedModels == {"gemini-2.5-pro", "gemini-2.5-flash"}
sanitizeModelSelection(model) ==
  IF model \notin allowedModels THEN "gemini-2.5-flash" ELSE model
\* the sanitizing of one field of a config object, applied by loadConfig and
\* updateConfig only to a model field whose value is truthy
SanitizedField(field, value) ==
  IF field \in ModelFields /\ value # "" THEN sanitizeModelSelection(value) ELSE value
FileStates == {"ok", "unreadable", "missing"}

VARIABLES
  revision,                              \* which revision of the class runs
  config,                                \* ConfigHelper: the stored config
  geminiApiKey,                          \* ProcessingHelper.geminiApiKey
  languageCache,                         \* ProcessingHelper.languageCache
  view,                                  \* deps.getView / setView
  problemInfo,                           \* deps.getProblemInfo / setProblemInfo
  hasDebugged,                           \* deps.setHasDebugged
  screenshotQueue,                       \* screenshotHelper.getScreenshotQueue
  extraScreenshotQueue,                  \* screenshotHelper.getExtraScreenshotQueue
  currentProcessingAbortController,
  currentExtraProcessingAbortController,
  aborted,                               \* controllers whose abort() was called
  started,                               \* number of processScreenshots calls
  cycles,                                \* per call: position and history
  cancelNotices                          \* NO_SCREENSHOTS sent by cancelOngoingRequests

vars == <<revision, config, geminiApiKey, languageCache, view, problemInfo,
          hasDebugged, screenshotQueue, extraScreenshotQueue,
          currentProcessingAbortController, currentExtraProcessingAbortController,
          aborted, started, cycles, cancelNotices>>

CycleIds == 1..MaxCycles
NoData == [present |-> FALSE, code |-> NoText]
SolutionData(code) == [present |-> TRUE, code |-> code]
Ev(name, msg) == [name |-> name, msg |-> msg]
\* getOptimalModel: the same model for every problem type
getOptimalModel(problemType) == "gemini-2.5-flash"
\* the model literal of the debug request
DebugModel == "gemini-2.5-flash"

\* a posted request: its parts, and the key placed in its URL
\* model: the model named in its URL; sent: the number of events the cycle
\* had sent to the window when it was posted
Req(phase, images, template, language, key, model, sent) ==
  [phase |-> phase, images |-> images, template |-> template,
   language |-> language, key |-> key, model |-> model, sent |-> sent]

IdleCycle ==
  [pc |-> "idle", kind |-> "none", ctrl |-> NoController, events |-> <<>>,
   requests |-> <<>>, responses |-> <<>>, outcome |-> "", data |-> NoData, extracted |-> FALSE,
   attempt |-> 0, script |-> <<>>, images |-> 0, info |-> JNull, language |-> Null,
   promptText |-> "", polls |-> 0]

\* initializeGeminiClient: the key of the stored config, null when empty
initializeGeminiClient == IF config.apiKey # "" THEN config.apiKey ELSE Null

\* what the window answers while getLanguage runs: the number of polls it
\* answers with a falsy __IS_INITIALIZED__ before a truthy one, and its
\* __LANGUAGE__ (Null: not a string)
InitializedAfter == {29, 50}
WindowLanguages == {"java"}
NoWindow == [initializedAfter |-> 0, language |-> Null]

\* maxAttempts of waitForInitialization
maxAttempts == IF revision = "current" THEN 30 ELSE 50

\* the loop of waitForInitialization: polls counts the executeJavaScript
\* calls; the loop throws after maxAttempts falsy answers
RECURSIVE WaitLoop(_, _, _)
WaitLoop(attempts, initializedAfter, limit) ==
  IF attempts < limit
  THEN IF attempts >= initializedAfter
       THEN [threw |-> FALSE, polls |-> attempts + 1]
       ELSE WaitLoop(attempts + 1, initializedAfter, limit)
  ELSE [threw |-> TRUE, polls |-> attempts]
waitForInitialization(w) == WaitLoop(0, w.initializedAfter, maxAttempts)

\* getLanguage asks the window only when neither the cache nor the config
\* holds a language
NeedsWindow == languageCache \in {Null, ""} /\ config.language = ""
WindowInputs ==
  IF NeedsWindow
  THEN {[initializedAfter |-> a, language |-> l] :
          a \in InitializedAfter, l \in WindowLanguages}
  ELSE {NoWindow}

\* getLanguage: the cached value, else the configured language, else the
\* language of the window once it is initialized, else python
getLanguage(w) ==
  IF languageCache \notin {Null, ""} THEN languageCache
  ELSE IF config.language # "" THEN config.language
  ELSE IF ~waitForInitialization(w).threw /\ w.language # Null THEN w.language
  ELSE "python"
\* the polls of that call
PollsOf(w) == IF NeedsWindow THEN waitForInitialization(w).polls ELSE 0

\* the helper after its constructor ran on the stored config
InitHelper ==
  /\ geminiApiKey = (IF config.apiKey # "" THEN config.apiKey ELSE Null)
  /\ languageCache = Null
  /\ view = "queue"
  /\ problemInfo = JNull
  /\ hasDebugged = FALSE
  /\ screenshotQueue = <<>>
  /\ extraScreenshotQueue = <<>>
  /\ currentProcessingAbortController = NoController
  /\ currentExtraProcessingAbortController = NoController
  /\ aborted = {}
  /\ started = 0
  /\ cycles = [c \in CycleIds |-> IdleCycle]
  /\ cancelNotices = 0

InitCommon == config = defaultConfig /\ InitHelper

Init == revision = "current" /\ InitCommon


\* ------------------------------------------------------- loadScreenshots
Existing(paths) == SelectSeq(paths, LAMBDA f : f # "missing")
Readable(paths) == SelectSeq(paths, LAMBDA f : f = "ok")

\* current revision: throws when no path exists, otherwise returns the
\* screenshots whose read succeeded (possibly none)
loadScreenshots(paths) ==
  IF Existing(paths) = <<>>
  THEN [threw |-> TRUE, message |-> MsgNoValidFiles, images |-> 0]
  ELSE [threw |-> FALSE, message |-> "", images |-> Len(Readable(paths))]

\* ------------------------------------------------ tail of processScreenshots
\* The queue branch after processScreenshotsHelper returned result r
\* (lines after the await, and the finally block).
QueueResultEvents(r) ==
  IF ~r.success
  THEN IF MentionsApiKey(r.error)
       THEN <<Ev("API_KEY_INVALID", "")>>
       ELSE <<Ev("INITIAL_SOLUTION_ERROR", r.error)>>
  ELSE <<Ev("SOLUTION_SUCCESS", "")>>

\* The catch block of the queue branch for a thrown error e
QueueCatchEvents(e) ==
  <<Ev("INITIAL_SOLUTION_ERROR", e.message),
    Ev("INITIAL_SOLUTION_ERROR",
       IF e.cancel THEN MsgCanceled ELSE e.message)>>

Failure(msg) == [success |-> FALSE, error |-> msg, data |-> NoData]
Success(d) == [success |-> TRUE, error |-> "", data |-> d]

\* the cycle c ends in the queue branch with helper result r
FinishQueueCycle(c, cyc, r) ==
  /\ cycles' = [cycles EXCEPT ![c] =
       [cyc EXCEPT !.pc = "done",
                   !.events = cyc.events \o QueueResultEvents(r),
                   !.outcome = IF r.success THEN "success" ELSE r.error,
                   !.data = r.data]]
  /\ view' = IF r.success THEN "solutions" ELSE "queue"
  /\ currentProcessingAbortController' = NoController

\* a debug branch without the reset of its finally block
FinishDebugCycleKeepsController(c, cyc, r) ==
  /\ cycles' = [cycles EXCEPT ![c] =
       [cyc EXCEPT !.pc = "done",
                   !.events = cyc.events \o
                      <<IF r.success THEN Ev("DEBUG_SUCCESS", "")
                                     ELSE Ev("DEBUG_ERROR", r.error)>>,
                   !.outcome = IF r.success THEN "success" ELSE r.error,
                   !.data = r.data]]
  /\ hasDebugged' = IF r.success THEN TRUE ELSE hasDebugged
  /\ UNCHANGED currentExtraProcessingAbortController

\* the cycle c ends in the debug branch with helper result r
FinishDebugCycle(c, cyc, r) ==
  /\ cycles' = [cycles EXCEPT ![c] =
       [cyc EXCEPT !.pc = "done",
                   !.events = cyc.events \o
                      <<IF r.success THEN Ev("DEBUG_SUCCESS", "")
                                     ELSE Ev("DEBUG_ERROR", r.error)>>,
                   !.outcome = IF r.success THEN "success" ELSE r.error,
                   !.data = r.data]]
  /\ hasDebugged' = IF r.success THEN TRUE ELSE hasDebugged
  /\ currentExtraProcessingAbortController' = NoController


\* a rejected request whose continuation has not run yet: the abort of a
\* signal rejects the pending post at once, and the continuation runs before
\* any other handler
MicrotaskPending ==
  \E c \in CycleIds : cycles[c].pc \in {"extract", "solve", "debug"}
                      /\ cycles[c].ctrl \in aborted

StatusEv(msg) == Ev("processing-status", msg)

\* ------------------------------------------- processScreenshots (current)
\* queue branch, up to the post of the extraction request
ProcessQueueBranch(c, key) ==
  LET cyc0 == [IdleCycle EXCEPT !.kind = "queue", !.events = <<Ev("INITIAL_START", "")>>]
      ld == loadScreenshots(screenshotQueue)
  IN IF screenshotQueue = <<>>
     THEN /\ cycles' = [cycles EXCEPT ![c] =
                [cyc0 EXCEPT !.pc = "done", !.outcome = "no-screenshots",
                             !.events = cyc0.events \o <<Ev("NO_SCREENSHOTS", "")>>]]
          /\ UNCHANGED <<languageCache, view, currentProcessingAbortController>>
     ELSE IF ld.threw
     THEN /\ cycles' = [cycles EXCEPT ![c] =
                [cyc0 EXCEPT !.pc = "done", !.ctrl = c, !.outcome = ld.message,
                             !.events = cyc0.events \o
                                QueueCatchEvents(Thrown(ld.message, 0, FALSE))]]
          /\ view' = "queue"
          /\ currentProcessingAbortController' = NoController
          /\ UNCHANGED languageCache
     ELSE \E w \in WindowInputs :
          /\ cycles' = [cycles EXCEPT ![c] =
                [cyc0 EXCEPT !.pc = "extract", !.ctrl = c, !.images = ld.images,
                             !.polls = PollsOf(w),
                             !.events = cyc0.events \o
                                <<StatusEv("Analyzing problem from screenshots...")>>,
                             !.requests = <<Req("extraction", ld.images, "EXTRACTION", getLanguage(w), key,
                                                 getOptimalModel(JUndefined), Len(cyc0.events) + 1)>>]]
          /\ languageCache' = getLanguage(w)
          /\ currentProcessingAbortController' = c
          /\ UNCHANGED view

\* the problem info check of processExtraScreenshotsHelper
HasProblemInfoAlways == TRUE
HasProblemInfo == Truthy(problemInfo)

\* debug branch, up to the post of the debug request
ProcessDebugBranch(c, key) ==
  LET cyc0 == [IdleCycle EXCEPT !.kind = "debug"]
      cyc1 == [cyc0 EXCEPT !.ctrl = c, !.events = <<Ev("DEBUG_START", "")>>]
      ld == loadScreenshots(screenshotQueue \o extraScreenshotQueue)
  IN IF extraScreenshotQueue = <<>>
     THEN /\ cycles' = [cycles EXCEPT ![c] =
                [cyc0 EXCEPT !.pc = "done", !.outcome = "no-screenshots",
                             !.events = <<Ev("NO_SCREENSHOTS", "")>>]]
          /\ UNCHANGED <<languageCache, hasDebugged, currentExtraProcessingAbortController>>
     ELSE IF ld.threw
     THEN /\ FinishDebugCycle(c, cyc1, Failure(ld.message))
          /\ UNCHANGED languageCache
     ELSE IF ~HasProblemInfo
     THEN \E w \in WindowInputs :
          /\ FinishDebugCycle(c, [cyc1 EXCEPT !.polls = PollsOf(w)], Failure(MsgNoProblemInfo))
          /\ languageCache' = getLanguage(w)
     ELSE \E w \in WindowInputs :
          /\ cycles' = [cycles EXCEPT ![c] =
                [cyc1 EXCEPT !.pc = "debug", !.images = ld.images,
                             !.polls = PollsOf(w),
                             !.events = cyc1.events \o
                                <<StatusEv("Analyzing debug screenshots...")>>,
                             !.requests = <<Req("debug", ld.images, "DEBUG", getLanguage(w), key,
                                                 DebugModel, Len(cyc1.events) + 1)>>]]
          /\ languageCache' = getLanguage(w)
          /\ currentExtraProcessingAbortController' = c
          /\ UNCHANGED hasDebugged

processScreenshots ==
  /\ revision = "current"
  /\ started < MaxCycles
  /\ ~MicrotaskPending
  /\ LET c == started + 1
         key == IF geminiApiKey = Null THEN initializeGeminiClient ELSE geminiApiKey
     IN /\ started' = c
        /\ geminiApiKey' = key
        /\ IF key = Null
           THEN /\ cycles' = [cycles EXCEPT ![c] =
                      [IdleCycle EXCEPT !.pc = "done", !.outcome = "no-key",
                                        !.events = <<Ev("API_KEY_INVALID", "")>>]]
                /\ UNCHANGED <<languageCache, view, hasDebugged,
                               currentProcessingAbortController,
                               currentExtraProcessingAbortController>>
           ELSE IF view = "queue"
           THEN /\ ProcessQueueBranch(c, key)
                /\ UNCHANGED <<hasDebugged, currentExtraProcessingAbortController>>
           ELSE /\ ProcessDebugBranch(c, key)
                /\ UNCHANGED <<view, currentProcessingAbortController>>
  /\ UNCHANGED <<revision, config, problemInfo, screenshotQueue,
                 extraScreenshotQueue, aborted, cancelNotices>>


\* ------------------------------------------------- parsing of the solution
IsWordToken(tok) == tok \in {WORDJSON, PROSE, JSNULL, JSNUM}

RECURSIVE IndexOfFence(_, _)
\* first position >= i holding a fence, 0 when there is none
IndexOfFence(s, i) ==
  IF i > Len(s) THEN 0 ELSE IF s[i] = FENCE THEN i ELSE IndexOfFence(s, i + 1)

RECURSIVE SkipWords(_, _)
SkipWords(s, i) == IF i <= Len(s) /\ IsWordToken(s[i]) THEN SkipWords(s, i + 1) ELSE i

\* responseContent.match(fence, optional word, white space, lazy group, fence):
\* the group of the first match, or no match
CodeMatch(s) ==
  LET open == IndexOfFence(s, 1)
      close == IF open = 0 THEN 0 ELSE IndexOfFence(s, open + 1)
  IN IF close = 0
     THEN [matched |-> FALSE, group |-> NoText]
     ELSE [matched |-> TRUE,
           group |-> TrimLeft(SubSeq(s, SkipWords(s, open + 1), close - 1))]

\* const code = codeMatch ? codeMatch[1].trim() : responseContent
ExtractCode(s) == LET m == CodeMatch(s) IN IF m.matched THEN Trim(m.group) ELSE s

DefaultDebugCode == <<"// Debug analysis - see details below">>
ExtractDebugCode(s) ==
  LET m == CodeMatch(s)
  IN IF m.matched /\ Trim(m.group) # NoText THEN Trim(m.group) ELSE DefaultDebugCode

\* ------------------------------------------------- generateSolutionsHelper
maxRetries == 2

PropType(v) == IF v.t = "object" THEN v.problem_type ELSE JUndefined
IsMCQ(v) == PropType(v) = JString(<<"MCQ">>)

\* ------------------------------------------------ insights of the solution
RECURSIVE IndexOfToken(_, _, _)
\* first position >= i holding tok, Len(s) + 1 when there is none
IndexOfToken(s, tok, i) ==
  IF i > Len(s) THEN Len(s) + 1
  ELSE IF s[i] = tok THEN i ELSE IndexOfToken(s, tok, i + 1)

RECURSIVE SkipSpace(_, _)
\* first position >= i that holds no white space, Len(s) + 1 at the end
SkipSpace(s, i) == IF i <= Len(s) /\ IsSpace(s[i]) THEN SkipSpace(s, i + 1) ELSE i

\* the lookahead that ends the insights group: a line feed, white space and
\* a closing word or marker (of the tokens, the fence)
StopsGroup(s, p) ==
  /\ p <= Len(s) /\ s[p] = NEWLINE
  /\ SkipSpace(s, p + 1) <= Len(s)
  /\ s[SkipSpace(s, p + 1)] = FENCE

RECURSIVE GroupEnd(_, _)
\* the lazy group grows until the end of the text or the lookahead
GroupEnd(s, p) == IF p > Len(s) \/ StopsGroup(s, p) THEN p - 1 ELSE GroupEnd(s, p + 1)

\* responseContent.match(insightsRegex): the header, colons and white
\* space after it, then the group
InsightsMatch(s) ==
  LET h == IndexOfToken(s, INSIGHTS, 1)
      start == SkipSpace(s, h + 1)
  IN IF h > Len(s)
     THEN [matched |-> FALSE, group |-> NoText]
     ELSE [matched |-> TRUE, group |-> SubSeq(s, start, GroupEnd(s, start))]

\* a bullet marker can be matched at b when only white space separates it
\* from the start of the group or from a line feed
AtLineStart(g, b) ==
  \A j \in 1..(b - 1) : (\A k \in j..(b - 1) : g[k] # NEWLINE) => g[j] = SPACE

RECURSIVE BulletPoints(_, _)
\* the global match of the bullet pattern from position i on, each match
\* with its marker replaced by the empty string and trimmed
BulletPoints(g, i) ==
  IF i > Len(g) THEN <<>>
  ELSE IF g[i] = BULLET /\ AtLineStart(g, i)
  THEN LET r == SkipSpace(g, i + 1)
           e == IndexOfToken(g, NEWLINE, r) - 1
       IN IF r <= Len(g)
          THEN <<Trim(SubSeq(g, r, e))>> \o BulletPoints(g, e + 1)
          ELSE IF \E k \in (i + 1)..Len(g) : g[k] = SPACE
          THEN <<NoText>>
          ELSE <<>>
  ELSE BulletPoints(g, i + 1)

RECURSIVE SplitLines(_)
\* String.prototype.split on the line feed
SplitLines(g) ==
  LET n == IndexOfToken(g, NEWLINE, 1)
  IN IF n > Len(g) THEN <<g>>
     ELSE <<SubSeq(g, 1, n - 1)>> \o SplitLines(SubSeq(g, n + 1, Len(g)))

RECURSIVE LineLength(_)
LineLength(line) == IF line = <<>> THEN 0 ELSE CharLen(Head(line)) + LineLength(Tail(line))

RECURSIVE TrimAll(_)
TrimAll(lines) == IF lines = <<>> THEN <<>> ELSE <<Trim(Head(lines))>> \o TrimAll(Tail(lines))

IncludesFence(line) == \E i \in DOMAIN line : line[i] = FENCE

\* a list that is not cut
SliceNone(list) == list

\* Array.prototype.slice(0, 4)
SliceFour(list) == SubSeq(list, 1, IF Len(list) < 4 THEN Len(list) ELSE 4)

\* the fallback insight of the problem type
FallbackThoughts(pi) ==
  IF revision = "current"
  THEN (IF IsMCQ(pi) THEN <<<<"Systematic analysis with step verification">>>>
                     ELSE <<<<"Optimal algorithm with edge case handling">>>>)
  ELSE (IF IsMCQ(pi)
        THEN <<<<"Systematic quantitative analysis with step-by-step verification">>>>
        ELSE <<<<"Optimal algorithm design with comprehensive edge case handling">>>>)

\* the insight lines taken from the response, before the fallback
ExtractedThoughts(s) ==
  LET m == InsightsMatch(s)
      bullets == BulletPoints(m.group, 1)
  IN IF ~m.matched \/ m.group = NoText THEN <<>>
     ELSE IF bullets # <<>>
     THEN SliceFour(SelectSeq(bullets, LAMBDA line : LineLength(line) > 10))
     ELSE SliceFour(SelectSeq(TrimAll(SplitLines(m.group)),
                              LAMBDA line : LineLength(line) > 10 /\ ~IncludesFence(line)))

\* thoughts of the solution result
Thoughts(s, pi) ==
  IF ExtractedThoughts(s) = <<>> THEN FallbackThoughts(pi) ELSE ExtractedThoughts(s)

\* the data of a successful solving phase: code and thoughts
SolutionResult(code, thoughts) == [present |-> TRUE, code |-> code, thoughts |-> thoughts]

\* the prompt built at the top of the solving attempt
FullPrompt(pi) ==
  IF revision = "current"
  THEN (IF IsMCQ(pi) THEN "MCQ" ELSE "CODING")
  ELSE (IF IsMCQ(pi) THEN "MCQ_FULL" ELSE "CODING_FULL")

\* the prompt assigned in the catch block of the retry loop
ShortPrompt(pi) == IF IsMCQ(pi) THEN "MCQ_SHORT" ELSE "CODING_SHORT"

\* a retry loop that retries after any failure of the request
ShouldRetryAnyError(message, attempt) ==
  revision = "retry" /\ attempt < maxRetries

\* error.message === "TRUNCATED_RESPONSE" && attempt < maxRetries
ShouldRetry(message, attempt) ==
  revision = "retry" /\ message = MsgTruncated /\ attempt < maxRetries

CacheAfterGetLanguage(w) == IF revision = "current" THEN getLanguage(w) ELSE languageCache

\* a solving request that carries the screenshots of the cycle again
SolutionWithImages(cyc) == cyc.images

\* the image parts of the solving request: its parts are the prompt text only
SolutionImageParts(cyc) == 0

\* a solving attempt that posts without the check of the key
SolutionAttemptNoKeyCheck(cyc, sc) ==
  [posted |-> TRUE, error |-> "",
   cyc |-> [cyc EXCEPT !.pc = "solve", !.script = sc,
              !.promptText = FullPrompt(cyc.info),
              !.requests = cyc.requests \o
                 <<Req("solution", SolutionImageParts(cyc), FullPrompt(cyc.info), cyc.language, geminiApiKey,
                     getOptimalModel(PropType(cyc.info)), Len(cyc.events))>>]]

\* one pass of the solving attempt up to its post: the prompt is assigned at
\* the top of the attempt, then makeGeminiRequest checks the key and posts
SolutionAttempt(cyc, sc) ==
  IF geminiApiKey = Null
  THEN [posted |-> FALSE, error |-> MsgKeyNotConfigured,
        cyc |-> [cyc EXCEPT !.promptText = FullPrompt(cyc.info)]]
  ELSE [posted |-> TRUE, error |-> "",
        cyc |-> [cyc EXCEPT !.pc = "solve", !.script = sc,
                   !.promptText = FullPrompt(cyc.info),
                   !.requests = cyc.requests \o
                      <<Req("solution", SolutionImageParts(cyc), FullPrompt(cyc.info), cyc.language, geminiApiKey,
                     getOptimalModel(PropType(cyc.info)), Len(cyc.events))>>]]

\* ------------------------------------------- processScreenshotsHelper
\* a parse whose failure is not caught as a failure
ExtractionParseIgnored(pi) == FALSE

\* the inner try/catch around the parse returns the parse failure
ExtractionParseThrows(pi) == pi = SyntaxError

\* continuation of the cycle after the extraction request settled with resp
ExtractionResponse(c, resp, sc) ==
  /\ cycles[c].pc = "extract"
  /\ IF cycles[c].ctrl \in aborted THEN resp = RespCancel ELSE ~MicrotaskPending
  /\ \E w \in WindowInputs :
     LET cyc == [cycles[c] EXCEPT !.responses = Append(cycles[c].responses, resp)]
         r == makeGeminiRequest(resp)
         pi == ParseExtraction(r.text)
         cyc1 == [cyc EXCEPT !.extracted = TRUE,
                    !.events = cyc.events \o
                       <<StatusEv("Problem analyzed. Generating solution..."),
                         Ev("PROBLEM_EXTRACTED", "")>>]
         \* locals of generateSolutionsHelper: problemInfo and language
         cyc2 == [cyc1 EXCEPT !.info = pi, !.language = getLanguage(w),
                    !.polls = PollsOf(w),
                    !.events = cyc1.events \o <<StatusEv("Generating solution...")>>]
         att == SolutionAttempt(cyc2, sc)
     IN IF r.threw
        THEN /\ FinishQueueCycle(c, cyc, Failure(IF r.cancel THEN MsgCanceled ELSE r.message))
             /\ UNCHANGED <<problemInfo, languageCache>>
        ELSE IF ExtractionParseThrows(pi)
        THEN /\ FinishQueueCycle(c, cyc, Failure(MsgParse))
             /\ UNCHANGED <<problemInfo, languageCache>>
        ELSE IF pi = JNull
        THEN /\ FinishQueueCycle(c, cyc1, Failure(MsgTypeErrorNull))
             /\ problemInfo' = pi
             /\ UNCHANGED languageCache
        ELSE IF ~Truthy(pi)
        THEN /\ FinishQueueCycle(c, cyc1, Failure(MsgNoProblemInfo))
             /\ problemInfo' = pi
             /\ languageCache' = CacheAfterGetLanguage(w)
        ELSE IF ~att.posted
        THEN /\ FinishQueueCycle(c, att.cyc, Failure(att.error))
             /\ problemInfo' = pi
             /\ languageCache' = CacheAfterGetLanguage(w)
        ELSE /\ cycles' = [cycles EXCEPT ![c] = att.cyc]
             /\ problemInfo' = pi
             /\ languageCache' = CacheAfterGetLanguage(w)
             /\ UNCHANGED <<view, currentProcessingAbortController>>
  /\ UNCHANGED <<revision, config, geminiApiKey, hasDebugged, screenshotQueue,
                 extraScreenshotQueue, currentExtraProcessingAbortController,
                 aborted, started, cancelNotices>>

\* continuation of the cycle after a solving request settled with resp
SolvingResponse(c, resp) ==
  /\ cycles[c].pc = "solve"
  /\ IF cycles[c].ctrl \in aborted THEN resp = RespCancel ELSE ~MicrotaskPending
  /\ LET cyc == [cycles[c] EXCEPT !.responses = Append(cycles[c].responses, resp)]
         r == makeGeminiRequest(resp)
         d == SolutionResult(ExtractCode(r.text), Thoughts(r.text, cyc.info))
         cycOk == [cyc EXCEPT !.events = cyc.events \o
                     <<StatusEv("Solution generated successfully"),
                       Ev("SOLUTION_SUCCESS", "")>>]
         \* the catch block of the retry loop assigns the short prompt and
         \* continues; the next pass assigns the prompt again at its top
         cycRetry == [cyc EXCEPT !.attempt = cyc.attempt + 1,
                                 !.promptText = ShortPrompt(cyc.info)]
         att == SolutionAttempt(cycRetry, cyc.script)
     IN IF ~r.threw
        THEN /\ FinishQueueCycle(c, cycOk, Success(d))
             /\ extraScreenshotQueue' = <<>>
        ELSE IF ~r.cancel /\ ShouldRetry(r.message, cyc.attempt) /\ att.posted
        THEN /\ cycles' = [cycles EXCEPT ![c] = att.cyc]
             /\ UNCHANGED <<view, currentProcessingAbortController, extraScreenshotQueue>>
        ELSE /\ FinishQueueCycle(c,
                  IF ~r.cancel /\ ShouldRetry(r.message, cyc.attempt) THEN att.cyc ELSE cyc,
                  Failure(IF r.cancel THEN MsgCanceled
                          ELSE IF ShouldRetry(r.message, cyc.attempt) THEN att.error
                          ELSE r.message))
             /\ UNCHANGED extraScreenshotQueue
  /\ UNCHANGED <<revision, config, geminiApiKey, languageCache, problemInfo,
                 hasDebugged, screenshotQueue,
                 currentExtraProcessingAbortController, aborted, started, cancelNotices>>


\* ------------------------------------------- processExtraScreenshotsHelper
\* continuation of a debug cycle after its request settled with resp; the
\* catch block makes no difference between a cancellation and an error
DebugResponse(c, resp) ==
  /\ cycles[c].pc = "debug"
  /\ IF cycles[c].ctrl \in aborted THEN resp = RespCancel ELSE ~MicrotaskPending
  /\ LET cyc == [cycles[c] EXCEPT !.responses = Append(cycles[c].responses, resp)]
         r == makeGeminiRequest(resp)
         cycOk == [cyc EXCEPT !.events = cyc.events \o <<StatusEv("Debug analysis complete")>>]
     IN IF r.threw
        THEN FinishDebugCycle(c, cyc, Failure(r.message))
        ELSE FinishDebugCycle(c, cycOk, Success(SolutionData(ExtractDebugCode(r.text))))
  /\ UNCHANGED <<revision, config, geminiApiKey, languageCache, view, problemInfo,
                 screenshotQueue, extraScreenshotQueue,
                 currentProcessingAbortController, aborted, started, cancelNotices>>

\* ------------------------------------------------- cancelOngoingRequests
StoredControllers ==
  {currentProcessingAbortController, currentExtraProcessingAbortController}
    \ {NoController}

\* wasCancelled: an abort controller was stored when cancelOngoingRequests ran
WasCancelledAlways == TRUE
wasCancelled == StoredControllers # {}

cancelOngoingRequests ==
  /\ ~MicrotaskPending
  /\ aborted' = aborted \cup StoredControllers
  /\ currentProcessingAbortController' = NoController
  /\ currentExtraProcessingAbortController' = NoController
  /\ hasDebugged' = FALSE
  /\ problemInfo' = JNull
  /\ languageCache' = Null
  /\ cancelNotices' = cancelNotices + (IF wasCancelled THEN 1 ELSE 0)
  /\ UNCHANGED <<revision, config, geminiApiKey, view, screenshotQueue,
                 extraScreenshotQueue, started, cycles>>

\* ------------------------------------------------------------ environment
\* ConfigHelper.loadConfig: the stored file with the provider forced and the
\* truthy model fields sanitized
loadConfig ==
  [f \in DOMAIN config |->
     IF f = "apiProvider" THEN "gemini" ELSE SanitizedField(f, config[f])]

\* the fields whose update makes updateConfig emit 'config-updated'
EmitsAlways(field) == TRUE
EmitsConfigUpdated(field) ==
  field \in {"apiKey", "language"} \cup ModelFields

\* ConfigHelper.updateConfig with one field: the loaded config with the
\* update spread over it is saved; 'config-updated' is emitted for a key, a
\* model or a language, also when the value is the one already stored, and
\* the handler registered in the constructor then clears the language cache
\* and reloads the key
updateConfig(field, value) ==
  /\ ~MicrotaskPending
  /\ config' = [loadConfig EXCEPT ![field] = SanitizedField(field, value)]
  /\ IF EmitsConfigUpdated(field)
       THEN /\ geminiApiKey' = (IF config'.apiKey # "" THEN config'.apiKey ELSE Null)
            /\ languageCache' = Null
       ELSE UNCHANGED <<geminiApiKey, languageCache>>
  /\ UNCHANGED <<revision, view, problemInfo, hasDebugged, screenshotQueue,
                 extraScreenshotQueue, currentProcessingAbortController,
                 currentExtraProcessingAbortController, aborted, started, cycles,
                 cancelNotices>>

\* ConfigHelper.setOpacity: the opacity clamped to 0.1 .. 1.0 is updated
setOpacity(opacity) ==
  LET atLeast == IF opacity < 1 THEN 1 ELSE opacity
      validOpacity == IF atLeast > 10 THEN 10 ELSE atLeast
  IN  updateConfig("opacity", validOpacity)

\* ConfigHelper.setLanguage
setLanguage(language) == updateConfig("language", language)

\* the capture collaborator appends a screenshot file to the queue of the
\* current view
TakeScreenshot(f) ==
  /\ ~MicrotaskPending
  /\ IF view = "queue"
     THEN /\ Len(screenshotQueue) < MaxQueue
          /\ screenshotQueue' = Append(screenshotQueue, f)
          /\ UNCHANGED extraScreenshotQueue
     ELSE /\ Len(extraScreenshotQueue) < MaxQueue
          /\ extraScreenshotQueue' = Append(extraScreenshotQueue, f)
          /\ UNCHANGED screenshotQueue
  /\ UNCHANGED <<revision, config, geminiApiKey, languageCache, view, problemInfo,
                 hasDebugged, currentProcessingAbortController,
                 currentExtraProcessingAbortController, aborted, started, cycles,
                 cancelNotices>>

\* ------------------------------------ processScreenshots (retry revision)
\* The retry-loop revision checks the files' existence before it creates the
\* controller, and reads the files with an awaited preview per file: the
\* cycle is suspended in "load" until the reads are done.
processScreenshotsRetry ==
  /\ revision = "retry"
  /\ started < MaxCycles
  /\ ~MicrotaskPending
  /\ LET c == started + 1
         key == IF geminiApiKey = Null THEN initializeGeminiClient ELSE geminiApiKey
         queue == IF view = "queue" THEN screenshotQueue ELSE extraScreenshotQueue
         first == IF view = "queue" THEN <<Ev("INITIAL_START", "")>> ELSE <<>>
         kind == IF view = "queue" THEN "queue" ELSE "debug"
     IN /\ started' = c
        /\ geminiApiKey' = key
        /\ IF key = Null
           THEN /\ cycles' = [cycles EXCEPT ![c] =
                      [IdleCycle EXCEPT !.pc = "done", !.outcome = "no-key",
                                        !.events = <<Ev("API_KEY_INVALID", "")>>]]
                /\ UNCHANGED <<currentProcessingAbortController,
                               currentExtraProcessingAbortController>>
           ELSE IF queue = <<>> \/ Existing(queue) = <<>>
           THEN /\ cycles' = [cycles EXCEPT ![c] =
                      [IdleCycle EXCEPT !.pc = "done", !.kind = kind,
                                        !.outcome = "no-screenshots",
                                        !.events = first \o <<Ev("NO_SCREENSHOTS", "")>>]]
                /\ UNCHANGED <<currentProcessingAbortController,
                               currentExtraProcessingAbortController>>
           ELSE /\ cycles' = [cycles EXCEPT ![c] =
                      [IdleCycle EXCEPT !.pc = "load", !.kind = kind, !.ctrl = c,
                         !.images = IF view = "queue"
                                    THEN Len(Readable(screenshotQueue))
                                    ELSE Len(Readable(screenshotQueue \o extraScreenshotQueue)),
                         !.events = IF view = "queue" THEN first
                                    ELSE <<Ev("DEBUG_START", "")>>]]
                /\ IF view = "queue"
                   THEN /\ currentProcessingAbortController' = c
                        /\ UNCHANGED currentExtraProcessingAbortController
                   ELSE /\ currentExtraProcessingAbortController' = c
                        /\ UNCHANGED currentProcessingAbortController
  /\ UNCHANGED <<revision, config, languageCache, view, problemInfo, hasDebugged,
                 screenshotQueue, extraScreenshotQueue, aborted, cancelNotices>>

\* makeGeminiRequest up to the post: the key check, then the post, which
\* an already aborted signal rejects without sending
PostOutcome(cyc) ==
  IF geminiApiKey = Null THEN MsgKeyNotConfigured
  ELSE IF cyc.ctrl \in aborted THEN MsgAxiosCanceled
  ELSE ""

\* the reads of a queue cycle are done: validScreenshots, then
\* processScreenshotsHelper up to the post of the extraction request
LoadDoneQueue(c) ==
  /\ revision = "retry"
  /\ cycles[c].pc = "load" /\ cycles[c].kind = "queue"
  /\ ~MicrotaskPending
  /\ \E w \in WindowInputs :
     LET cyc == [cycles[c] EXCEPT !.polls = IF cycles[c].images = 0 THEN 0 ELSE PollsOf(w)]
         cyc1 == [cyc EXCEPT !.events = cyc.events \o
                    <<StatusEv("Analyzing problem from screenshots...")>>]
         po == PostOutcome(cyc)
     IN IF cyc.images = 0
        THEN /\ cycles' = [cycles EXCEPT ![c] =
                   [cyc EXCEPT !.pc = "done", !.outcome = MsgLoadFailed,
                               !.events = cyc.events \o
                                  QueueCatchEvents(Thrown(MsgLoadFailed, 0, FALSE))]]
             /\ view' = "queue"
             /\ currentProcessingAbortController' = NoController
        ELSE IF po # ""
        THEN FinishQueueCycle(c, cyc1,
               Failure(IF po = MsgAxiosCanceled THEN MsgCanceled ELSE po))
        ELSE /\ cycles' = [cycles EXCEPT ![c] =
                   [cyc1 EXCEPT !.pc = "extract",
                      !.requests = <<Req("extraction", cyc.images, "EXTRACTION", getLanguage(w), geminiApiKey,
                             getOptimalModel(JUndefined), Len(cyc1.events))>>]]
             /\ UNCHANGED <<view, currentProcessingAbortController>>
  /\ UNCHANGED <<revision, config, geminiApiKey, languageCache, problemInfo,
                 hasDebugged, screenshotQueue, extraScreenshotQueue,
                 currentExtraProcessingAbortController, aborted, started,
                 cancelNotices>>

\* the reads of a debug cycle are done: validScreenshots, then
\* processExtraScreenshotsHelper up to the post of the debug request
LoadDoneDebug(c) ==
  /\ revision = "retry"
  /\ cycles[c].pc = "load" /\ cycles[c].kind = "debug"
  /\ ~MicrotaskPending
  /\ \E w \in WindowInputs :
     LET cyc == [cycles[c] EXCEPT !.polls = IF cycles[c].images = 0 THEN 0 ELSE PollsOf(w)]
         cyc1 == [cyc EXCEPT !.events = cyc.events \o
                    <<StatusEv("Processing debug screenshots..."),
                      StatusEv("Analyzing debug information...")>>]
         po == PostOutcome(cyc)
     IN IF cyc.images = 0
        THEN FinishDebugCycle(c, cyc, Failure(MsgLoadFailedDebug))
        ELSE IF ~Truthy(problemInfo)
        THEN FinishDebugCycle(c, cyc, Failure(MsgNoProblemInfo))
        ELSE IF po # ""
        THEN FinishDebugCycle(c, cyc1, Failure(po))
        ELSE /\ cycles' = [cycles EXCEPT ![c] =
                   [cyc1 EXCEPT !.pc = "debug",
                      !.requests = <<Req("debug", cyc.images, "DEBUG", getLanguage(w), geminiApiKey,
                             DebugModel, Len(cyc1.events))>>]]
             /\ UNCHANGED <<hasDebugged, currentExtraProcessingAbortController>>
  /\ UNCHANGED <<revision, config, geminiApiKey, languageCache, view, problemInfo,
                 screenshotQueue, extraScreenshotQueue,
                 currentProcessingAbortController, aborted, started, cancelNotices>>

\* what the remote answers to the solving requests of one cycle, attempt by
\* attempt
Truncated == RespCandidate("MAX_TOKENS", <<CODEPUNCT>>)
PlainAnswer == RespCandidate("STOP", <<PROSE, CODEPUNCT>>)
FencedAnswer ==
  RespCandidate("STOP", <<FENCE, WORDJSON, SPACE, CODEPUNCT, SPACE, FENCE, SPACE, PROSE>>)
SolveScripts ==
  { <<Truncated, Truncated, FencedAnswer>>,
    <<Truncated, Truncated, Truncated>>,
    <<Truncated, RespStatus(429), PlainAnswer>>,
    <<PlainAnswer, Truncated, Truncated>>,
    <<RespStatus(429), PlainAnswer, PlainAnswer>>,
    <<RespNoCandidates, FencedAnswer, FencedAnswer>> }

\* --------------------------------------------------------- specification
Next ==
  \/ processScreenshots
  \/ \E c \in CycleIds : \E resp \in ExtractionResponses \cup {RespCancel} :
        ExtractionResponse(c, resp, <<>>)
  \/ \E c \in CycleIds : \E resp \in SolvingResponses \cup {RespCancel} :
        SolvingResponse(c, resp)
  \/ \E c \in CycleIds : \E resp \in SolutionResponses \cup {RespCancel} :
        DebugResponse(c, resp)
  \/ cancelOngoingRequests
  \/ \E k \in {"", ApiKey} : updateConfig("apiKey", k)
  \/ \E f \in FileStates : TakeScreenshot(f)

Spec == Init /\ [][Next]_vars

InitRetry == revision = "retry" /\ InitCommon

NextRetry ==
  \/ processScreenshotsRetry
  \/ \E c \in CycleIds : LoadDoneQueue(c)
  \/ \E c \in CycleIds : LoadDoneDebug(c)
  \/ \E c \in CycleIds : \E resp \in ExtractionResponses \cup {RespCancel} :
        \E sc \in SolveScripts : ExtractionResponse(c, resp, sc)
  \/ \E c \in CycleIds :
        SolvingResponse(c, IF cycles[c].ctrl \in aborted THEN RespCancel
                           ELSE cycles[c].script[cycles[c].attempt + 1])
  \/ \E c \in CycleIds : \E resp \in SolutionResponses \cup {RespCancel} :
        DebugResponse(c, resp)
  \/ cancelOngoingRequests
  \/ \E k \in {"", ApiKey} : updateConfig("apiKey", k)
  \/ \E f \in FileStates : TakeScreenshot(f)

SpecRetry == InitRetry /\ [][NextRetry]_vars

\* ------------------------------------------------------------- progress
\* both revisions with a request that always settles: a remote answer
\* arrives or the post is rejected, and the reads of the files end
LiveExtractionResponses ==
  {RespStatus(429), RespCandidate("STOP", <<PSOPEN, PROSE, PSCLOSECODING>>)}
LiveSolutionResponses == {Truncated, PlainAnswer}
LiveScripts ==
  { <<PlainAnswer, Truncated, Truncated>>,
    <<Truncated, Truncated, FencedAnswer>> }

LoadSettles(c) == LoadDoneQueue(c) \/ LoadDoneDebug(c)
ExtractionSettles(c) ==
  \E resp \in LiveExtractionResponses \cup {RespCancel} :
    \E sc \in (IF revision = "retry" THEN LiveScripts ELSE {<<>>}) :
      ExtractionResponse(c, resp, sc)
SolvingSettles(c) ==
  /\ cycles[c].pc = "solve"
  /\ IF revision = "retry"
     THEN SolvingResponse(c, IF cycles[c].ctrl \in aborted THEN RespCancel
                             ELSE cycles[c].script[cycles[c].attempt + 1])
     ELSE \E resp \in LiveSolutionResponses \cup {RespCancel} : SolvingResponse(c, resp)
DebugSettles(c) ==
  \E resp \in LiveSolutionResponses \cup {RespCancel} : DebugResponse(c, resp)

InitLive == revision \in {"current", "retry"} /\ InitCommon

NextLive ==
  \/ processScreenshots
  \/ processScreenshotsRetry
  \/ \E c \in CycleIds : LoadSettles(c)
  \/ \E c \in CycleIds : ExtractionSettles(c)
  \/ \E c \in CycleIds : SolvingSettles(c)
  \/ \E c \in CycleIds : DebugSettles(c)
  \/ cancelOngoingRequests
  \/ \E k \in {"", ApiKey} : updateConfig("apiKey", k)
  \/ setLanguage("")
  \/ \E f \in FileStates : TakeScreenshot(f)

\* every pending read and every pending request settles
RequestsSettle ==
  \A c \in CycleIds :
    /\ WF_vars(LoadSettles(c))
    /\ WF_vars(ExtractionSettles(c))
    /\ WF_vars(SolvingSettles(c))
    /\ WF_vars(DebugSettles(c))

SpecLive == InitLive /\ [][NextLive]_vars /\ RequestsSettle

\* the values the settings surface passes to the config
ModelInputs == {"gemini-2.5-pro", "gemini-2.5-flash", "gemini-2.0-flash-exp", ""}
OpacityInputs == {0, 5, 10, 12}
LanguageInputs == {"python", "java"}

\* ------------------------------------------------- the optimized revision
\* one abort controller (currentProcessingAbortController holds it) and one
\* cache (languageCache holds cache.language)
MsgOptRateLimit == "Rate limit exceeded. Please wait and try again."
MsgOptInvalidResponse == "Invalid API response"
MsgOptNoKey == "API key not configured"
MsgOptParse == "Failed to parse problem information"
MsgOptNoValid == "No valid screenshots"
MsgOptLoadFailed == "Failed to load screenshots"
MsgOptDestructureNull == "Cannot destructure property 'problem_statement' of 'problemInfo' as it is null."
MsgOptNoStatement == "Cannot read properties of undefined (reading 'toLowerCase')"
MsgOptNotString == "problem_statement.toLowerCase is not a function"
OptimizedModel == "gemini-2.0-flash-exp"
\* selectModel: the same model for every problem type and complexity
selectModel(problemType, complexity) == OptimizedModel

\* makeGeminiRequest after the key check: the post rejects, or the text of
\* the first part is returned when it is non-empty (no try and catch around
\* it, and the finish reason is not read)
makeGeminiRequestOptimized(resp) ==
  IF resp.kind = "cancel" THEN Thrown(MsgAxiosCanceled, 0, TRUE)
  ELSE IF resp.kind = "status" THEN Thrown(MsgAxiosStatus, resp.status, FALSE)
  ELSE IF resp.kind = "network" THEN Thrown(MsgAxiosNetwork, 0, FALSE)
  ELSE IF resp.text = NoText THEN Thrown(MsgOptInvalidResponse, 0, FALSE)
  ELSE Returned(resp.text)

\* loadScreenshots: the paths that exist are read, and the reads that
\* succeeded are returned; throws when no path exists or no read succeeded
loadScreenshotsOptimized(paths) ==
  IF Existing(paths) = <<>>
  THEN [threw |-> TRUE, message |-> MsgOptNoValid, images |-> 0]
  ELSE IF Readable(paths) = <<>>
  THEN [threw |-> TRUE, message |-> MsgOptLoadFailed, images |-> 0]
  ELSE [threw |-> FALSE, message |-> "", images |-> Len(Readable(paths))]

\* getLanguage: the cached language while it is younger than a minute,
\* else the configured one (python when it is empty)
getLanguageOptimized(fresh) ==
  IF languageCache # Null /\ fresh THEN languageCache
  ELSE IF config.language # "" THEN config.language ELSE "python"

\* selectPrompt for the solving phase: the destructuring throws on null, and
\* toLowerCase on a statement that is no string; the language is read from
\* the cache at this point, python when the cache is empty. (The statements
\* of the texts hold none of the key words of the QUANT, LOGICAL and
\* CS_THEORY templates.)
selectPrompt(pi) ==
  IF pi.t = "null"
  THEN [threw |-> TRUE, message |-> MsgOptDestructureNull, template |-> "", language |-> Null]
  ELSE IF pi.t # "object" \/ pi.problem_statement.t = "undefined"
  THEN [threw |-> TRUE, message |-> MsgOptNoStatement, template |-> "", language |-> Null]
  ELSE IF pi.problem_statement.t # "string"
  THEN [threw |-> TRUE, message |-> MsgOptNotString, template |-> "", language |-> Null]
  ELSE IF IsMCQ(pi)
  THEN [threw |-> FALSE, message |-> "", template |-> "MCQ", language |-> Null]
  ELSE [threw |-> FALSE, message |-> "", template |-> "CODING",
        language |-> IF languageCache # Null THEN languageCache ELSE "python"]

\* handleProcessingError for the error e of a cycle started in the view of
\* kind: nothing for a cancellation, else the error event of the view
handleProcessingError(e, kind) ==
  IF e.cancel THEN <<>>
  ELSE <<Ev(IF kind = "queue" THEN "INITIAL_SOLUTION_ERROR" ELSE "DEBUG_ERROR",
            IF e.status = 429 THEN MsgOptRateLimit ELSE e.message)>>

\* the catch and finally blocks of processScreenshots for cycle c
FailOptimized(c, cyc, e) ==
  /\ cycles' = [cycles EXCEPT ![c] =
       [cyc EXCEPT !.pc = "done",
                   !.events = cyc.events \o handleProcessingError(e, cyc.kind),
                   !.outcome = e.message]]
  /\ view' = IF ~e.cancel /\ cyc.kind = "queue" THEN "queue" ELSE view
  /\ currentProcessingAbortController' = NoController

\* processInitialScreenshots up to the post of the extraction request
OptimizedInitial(c) ==
  LET cyc0 == [IdleCycle EXCEPT !.kind = "queue", !.ctrl = c]
      cyc1 == [cyc0 EXCEPT !.events = <<Ev("INITIAL_START", ""),
                                        StatusEv("Analyzing screenshots...")>>]
      ld == loadScreenshotsOptimized(screenshotQueue)
  IN IF screenshotQueue = <<>>
     THEN /\ cycles' = [cycles EXCEPT ![c] =
                [cyc0 EXCEPT !.pc = "done", !.outcome = "no-screenshots",
                             !.events = <<Ev("NO_SCREENSHOTS", "")>>]]
          /\ currentProcessingAbortController' = NoController
          /\ UNCHANGED <<languageCache, view>>
     ELSE IF ld.threw
     THEN /\ FailOptimized(c, cyc1, Thrown(ld.message, 0, FALSE))
          /\ UNCHANGED languageCache
     ELSE \E fresh \in BOOLEAN :
          /\ cycles' = [cycles EXCEPT ![c] =
                [cyc1 EXCEPT !.pc = "extract", !.images = ld.images,
                             !.language = getLanguageOptimized(fresh),
                             !.requests = <<Req("extraction", ld.images, "EXTRACTION",
                                                 getLanguageOptimized(fresh), geminiApiKey,
                                                 selectModel("extraction", "simple"),
                                                 Len(cyc1.events))>>]]
          /\ languageCache' = getLanguageOptimized(fresh)
          /\ currentProcessingAbortController' = c
          /\ UNCHANGED view

\* processExtraScreenshots up to the post of the debug request
OptimizedExtra(c) ==
  LET cyc0 == [IdleCycle EXCEPT !.kind = "debug", !.ctrl = c]
      cyc1 == [cyc0 EXCEPT !.events = <<Ev("DEBUG_START", "")>>]
      ld == loadScreenshotsOptimized(screenshotQueue \o extraScreenshotQueue)
  IN IF extraScreenshotQueue = <<>>
     THEN /\ cycles' = [cycles EXCEPT ![c] =
                [cyc0 EXCEPT !.pc = "done", !.outcome = "no-screenshots",
                             !.events = <<Ev("NO_SCREENSHOTS", "")>>]]
          /\ currentProcessingAbortController' = NoController
          /\ UNCHANGED view
     ELSE IF ld.threw
     THEN FailOptimized(c, cyc1, Thrown(ld.message, 0, FALSE))
     ELSE IF ~Truthy(problemInfo)
     THEN FailOptimized(c, cyc1, Thrown(MsgNoProblemInfo, 0, FALSE))
     ELSE /\ cycles' = [cycles EXCEPT ![c] =
                [cyc1 EXCEPT !.pc = "debug", !.images = ld.images,
                             !.requests = <<Req("debug", ld.images, "DEBUG", Null,
                                                 geminiApiKey, selectModel("debug", "complex"),
                                                 Len(cyc1.events))>>]]
          /\ currentProcessingAbortController' = c
          /\ UNCHANGED view

processScreenshotsOptimized ==
  /\ revision = "optimized"
  /\ started < MaxCycles
  /\ ~MicrotaskPending
  /\ LET c == started + 1
     IN /\ started' = c
        /\ IF geminiApiKey = Null
           THEN /\ cycles' = [cycles EXCEPT ![c] =
                      [IdleCycle EXCEPT !.pc = "done", !.outcome = "no-key",
                                        !.events = <<Ev("API_KEY_INVALID", "")>>]]
                /\ UNCHANGED <<languageCache, view, currentProcessingAbortController,
                               aborted>>
           ELSE /\ aborted' = aborted \cup
                                ({currentProcessingAbortController} \ {NoController})
                /\ IF view = "queue"
                   THEN OptimizedInitial(c)
                   ELSE OptimizedExtra(c) /\ UNCHANGED languageCache
  /\ UNCHANGED <<revision, config, geminiApiKey, problemInfo, hasDebugged,
                 screenshotQueue, extraScreenshotQueue,
                 currentExtraProcessingAbortController, cancelNotices>>

\* the answer to the extraction request of cycle c arrives: parse, store and
\* announce the problem, select the solving prompt and post the solving
\* request
ExtractionResponseOptimized(c, resp) ==
  /\ revision = "optimized"
  /\ cycles[c].pc = "extract"
  /\ IF cycles[c].ctrl \in aborted THEN resp = RespCancel ELSE ~MicrotaskPending
  /\ LET cyc == [cycles[c] EXCEPT !.responses = Append(cycles[c].responses, resp)]
         r == makeGeminiRequestOptimized(resp)
         pi == ParseExtraction(r.text)
         cyc1 == [cyc EXCEPT !.extracted = TRUE, !.info = pi,
                    !.events = cyc.events \o
                       <<Ev("PROBLEM_EXTRACTED", ""), StatusEv("Generating solution...")>>]
         sp == selectPrompt(pi)
     IN IF r.threw
        THEN FailOptimized(c, cyc, r) /\ UNCHANGED problemInfo
        ELSE IF pi = SyntaxError
        THEN FailOptimized(c, cyc, Thrown(MsgOptParse, 0, FALSE)) /\ UNCHANGED problemInfo
        ELSE /\ problemInfo' = pi
             /\ IF sp.threw
                THEN FailOptimized(c, cyc1, Thrown(sp.message, 0, FALSE))
                ELSE IF geminiApiKey = Null
                THEN FailOptimized(c, cyc1, Thrown(MsgOptNoKey, 0, FALSE))
                ELSE /\ cycles' = [cycles EXCEPT ![c] =
                          [cyc1 EXCEPT !.pc = "solve",
                             !.requests = Append(cyc1.requests,
                                Req("solution", 0, sp.template, sp.language, geminiApiKey,
                                    selectModel(PropType(pi), "complex"),
                                    Len(cyc1.events)))]]
                     /\ UNCHANGED <<view, currentProcessingAbortController>>
  /\ UNCHANGED <<revision, config, geminiApiKey, languageCache, hasDebugged,
                 screenshotQueue, extraScreenshotQueue,
                 currentExtraProcessingAbortController, aborted, started, cancelNotices>>

\* parseSolutionResponse: the group of the code match, else the whole
\* answer, trimmed
ExtractCodeOptimized(s) ==
  LET m == CodeMatch(s) IN IF m.matched THEN Trim(m.group) ELSE Trim(s)

SolvingResponseOptimized(c, resp) ==
  /\ revision = "optimized"
  /\ cycles[c].pc = "solve"
  /\ IF cycles[c].ctrl \in aborted THEN resp = RespCancel ELSE ~MicrotaskPending
  /\ LET cyc == [cycles[c] EXCEPT !.responses = Append(cycles[c].responses, resp)]
         r == makeGeminiRequestOptimized(resp)
     IN IF r.threw
        THEN FailOptimized(c, cyc, r)
        ELSE /\ cycles' = [cycles EXCEPT ![c] =
                  [cyc EXCEPT !.pc = "done", !.outcome = "success",
                              !.data = SolutionData(ExtractCodeOptimized(r.text)),
                              !.events = cyc.events \o
                                 <<StatusEv("Complete"), Ev("SOLUTION_SUCCESS", "")>>]]
             /\ view' = "solutions"
             /\ currentProcessingAbortController' = NoController
  /\ UNCHANGED <<revision, config, geminiApiKey, languageCache, problemInfo, hasDebugged,
                 screenshotQueue, extraScreenshotQueue,
                 currentExtraProcessingAbortController, aborted, started, cancelNotices>>

\* parseDebugResponse: the group of the code match, else a fixed line
ExtractDebugCodeOptimized(s) ==
  LET m == CodeMatch(s) IN IF m.matched THEN Trim(m.group) ELSE <<"// See analysis below">>

DebugResponseOptimized(c, resp) ==
  /\ revision = "optimized"
  /\ cycles[c].pc = "debug"
  /\ IF cycles[c].ctrl \in aborted THEN resp = RespCancel ELSE ~MicrotaskPending
  /\ LET cyc == [cycles[c] EXCEPT !.responses = Append(cycles[c].responses, resp)]
         r == makeGeminiRequestOptimized(resp)
     IN IF r.threw
        THEN FailOptimized(c, cyc, r) /\ UNCHANGED hasDebugged
        ELSE /\ cycles' = [cycles EXCEPT ![c] =
                  [cyc EXCEPT !.pc = "done", !.outcome = "success",
                              !.data = SolutionData(ExtractDebugCodeOptimized(r.text)),
                              !.events = cyc.events \o <<Ev("DEBUG_SUCCESS", "")>>]]
             /\ hasDebugged' = TRUE
             /\ currentProcessingAbortController' = NoController
             /\ UNCHANGED view
  /\ UNCHANGED <<revision, config, geminiApiKey, languageCache, problemInfo,
                 screenshotQueue, extraScreenshotQueue,
                 currentExtraProcessingAbortController, aborted, started, cancelNotices>>

\* cancelOngoingRequests of the optimized revision: NO_SCREENSHOTS is sent on
\* every call
cancelOngoingRequestsOptimized ==
  /\ revision = "optimized"
  /\ cancelNotices < MaxCancelNotices
  /\ ~MicrotaskPending
  /\ aborted' = aborted \cup ({currentProcessingAbortController} \ {NoController})
  /\ currentProcessingAbortController' = NoController
  /\ hasDebugged' = FALSE
  /\ problemInfo' = JNull
  /\ languageCache' = Null
  /\ cancelNotices' = cancelNotices + 1
  /\ UNCHANGED <<revision, config, geminiApiKey, view, screenshotQueue,
                 extraScreenshotQueue, currentExtraProcessingAbortController,
                 started, cycles>>

\* the answers a request of the optimized revision receives
OptimizedExtractionResponses ==
  {RespStatus(429), RespNetwork, RespNoContent}
    \cup {RespCandidate("STOP", t) : t \in ExtractionTexts}
OptimizedSolutionResponses ==
  {RespStatus(429), RespNetwork, RespNoContent}
    \cup {RespCandidate("STOP", t) : t \in SolutionTexts}
\* the language is configured before the helper is constructed and stays
InitOptimized ==
  /\ revision = "optimized"
  /\ \E l \in LanguageInputs : config = [defaultConfig EXCEPT !.language = l]
  /\ InitHelper

NextOptimized ==
  \/ processScreenshotsOptimized
  \/ \E c \in CycleIds : \E resp \in OptimizedExtractionResponses \cup {RespCancel} :
        ExtractionResponseOptimized(c, resp)
  \/ \E c \in CycleIds : \E resp \in OptimizedSolutionResponses \cup {RespCancel} :
        SolvingResponseOptimized(c, resp)
  \/ \E c \in CycleIds : \E resp \in OptimizedSolutionResponses \cup {RespCancel} :
        DebugResponseOptimized(c, resp)
  \/ cancelOngoingRequestsOptimized
  \/ \E k \in {"", ApiKey} : updateConfig("apiKey", k)
  \/ \E f \in FileStates : TakeScreenshot(f)

SpecOptimized == InitOptimized /\ [][NextOptimized]_vars

\* the settings surface: every field of the config is updated, with the model
\* strings the settings dialog offers and the empty string, while cycles are
\* started

NextConfig ==
  \/ processScreenshots
  \/ \E k \in {"", ApiKey} : updateConfig("apiKey", k)
  \/ \E f \in ModelFields : \E m \in ModelInputs : updateConfig(f, m)
  \/ \E l \in LanguageInputs : setLanguage(l)
  \/ \E o \in OpacityInputs : setOpacity(o)
  \/ \E f \in FileStates : TakeScreenshot(f)

SpecConfig == Init /\ [][NextConfig]_vars


\* ================================================================ claims
HasEvent(c, name) ==
  \E i \in DOMAIN cycles[c].events : cycles[c].events[i].name = name
HasEventMsg(c, name, msg) ==
  \E i \in DOMAIN cycles[c].events : cycles[c].events[i] = Ev(name, msg)
CountReq(c, phase) ==
  Cardinality({i \in DOMAIN cycles[c].requests : cycles[c].requests[i].phase = phase})
ErrorEvents == {"INITIAL_SOLUTION_ERROR", "DEBUG_ERROR", "API_KEY_INVALID"}
\* the extraction request of cycle c was answered with a text
ExtractionAnswered(c) ==
  /\ cycles[c].kind = "queue"
  /\ cycles[c].responses # <<>>
  /\ cycles[c].responses[1].kind = "candidate"
  /\ cycles[c].responses[1].finishReason = "STOP"
ExtractionValue(c) == ParseExtraction(cycles[c].responses[1].text)
\* a parsed value with a non-empty string problem_statement
ValidProblemStatement(v) ==
  /\ v.t = "object"
  /\ v.problem_statement.t = "string"
  /\ v.problem_statement.v # <<>>

\* C1: when a queue cycle has issued a request while an earlier queue cycle
\* is still waiting for a remote answer, the earlier cycle's signal has been
\* aborted (at most one extraction+solve cycle is in flight).
C1_PriorCycleAborted ==
  \A c1, c2 \in CycleIds :
    ( /\ c1 < c2
      /\ cycles[c1].kind = "queue" /\ cycles[c1].pc \in {"extract", "solve"}
      /\ cycles[c2].kind = "queue" /\ cycles[c2].requests # <<>> )
    => cycles[c1].ctrl \in aborted

\* C2: once a later processScreenshots call has started while a queue cycle
\* is in flight, no step lets the earlier cycle store problem info, emit
\* PROBLEM_EXTRACTED or SOLUTION_SUCCESS or finish other than cancelled.
C2_SupersededCycleOnlyCancelled ==
  [][ \A c1, c2 \in CycleIds :
        ( /\ c1 < c2
          /\ cycles[c1].kind = "queue" /\ cycles[c1].pc \in {"extract", "solve"}
          /\ cycles[c2].pc # "idle" )
        => /\ cycles'[c1].extracted = cycles[c1].extracted
           /\ \A i \in DOMAIN cycles'[c1].events :
                 cycles'[c1].events[i].name = "SOLUTION_SUCCESS"
                    => i \in DOMAIN cycles[c1].events
           /\ cycles'[c1].pc = "done" => cycles'[c1].outcome = MsgCanceled ]_vars

\* C3: a cycle whose signal was aborted by cancelOngoingRequests ends
\* without any error event (INITIAL_SOLUTION_ERROR, DEBUG_ERROR,
\* API_KEY_INVALID) sent to the window.
C3_CancelNotReportedAsError ==
  \A c \in CycleIds :
    (cycles[c].pc = "done" /\ cycles[c].ctrl \in aborted)
    => \A i \in DOMAIN cycles[c].events : cycles[c].events[i].name \notin ErrorEvents

\* C4: retry revision: when the remote answers the solving requests of a
\* cycle (with a well-formed extracted problem) with MAX_TOKENS, MAX_TOKENS
\* and then a normal finish, the finished (not cancelled) cycle succeeded
\* with the result parsed from the third text.
C4_ThirdAttemptSucceeds ==
  \A c \in CycleIds :
    ( /\ cycles[c].pc = "done"
      /\ cycles[c].script = <<Truncated, Truncated, FencedAnswer>>
      /\ ValidProblemStatement(cycles[c].info)
      /\ cycles[c].ctrl \notin aborted )
    => /\ cycles[c].outcome = "success"
       /\ cycles[c].data.code = ExtractCode(FencedAnswer.text)

\* C5: retry revision: a cycle issues at most maxRetries + 1 solving requests,
\* every solving request after the first follows a MAX_TOKENS answer to the
\* one before, and a solving request answered otherwise ends the cycle.
C5_BoundedRetry ==
  \A c \in CycleIds :
    cycles[c].kind = "queue" =>
      LET n == CountReq(c, "solution")
          rs == cycles[c].responses
      IN /\ n <= maxRetries + 1
         /\ \A k \in 2..n : rs[k].kind = "candidate" /\ rs[k].finishReason = "MAX_TOKENS"
         /\ \A k \in 1..n :
              (Len(rs) >= k + 1 /\ rs[k + 1].finishReason # "MAX_TOKENS")
                 => (cycles[c].pc = "done" /\ n = k)

C5_Witness ==
  \E c \in CycleIds :
    /\ cycles[c].pc = "done"
    /\ CountReq(c, "solution") = 1
    /\ Len(cycles[c].responses) = 2
    /\ cycles[c].responses[2] = RespStatus(429)

\* C6: a queue cycle that got past the empty-queue check with no readable
\* screenshot issues no request and ends with the input error.
C6_NoReadableInputNoRequest ==
  \A c \in CycleIds :
    (cycles[c].kind = "queue" /\ cycles[c].ctrl # NoController /\ cycles[c].images = 0)
    => /\ cycles[c].requests = <<>>
       /\ cycles[c].pc = "done" /\ cycles[c].outcome = MsgNoValidFiles

\* C7: a cycle whose extraction answer is not JSON after the fence markers
\* are removed is over with the parse error: one extraction request, no
\* solving request, no problem info stored, no PROBLEM_EXTRACTED.
C7_UnparseableExtractionFails ==
  \A c \in CycleIds :
    (ExtractionAnswered(c) /\ ExtractionValue(c) = SyntaxError)
    => /\ cycles[c].pc = "done"
       /\ cycles[c].outcome = MsgParse
       /\ HasEventMsg(c, "INITIAL_SOLUTION_ERROR", MsgParse)
       /\ Len(cycles[c].requests) = 1
       /\ ~cycles[c].extracted
       /\ ~HasEvent(c, "PROBLEM_EXTRACTED")

C7_Witness ==
  \E c \in CycleIds :
    /\ ExtractionAnswered(c)
    /\ cycles[c].responses[1].text = <<PROSE, SPACE, PROSE>>
    /\ cycles[c].pc = "done"

\* C8: a processScreenshots call made while no API key is configured sends
\* API_KEY_INVALID and issues no request, and no step posts a request while
\* geminiApiKey is null.
C8_NoKeyNoRequest ==
  [][ /\ \A c \in CycleIds :
           (cycles[c].pc = "idle" /\ cycles'[c].pc # "idle" /\ config.apiKey = "")
           => /\ cycles'[c].pc = "done"
              /\ cycles'[c].requests = <<>>
              /\ cycles'[c].events = <<Ev("API_KEY_INVALID", "")>>
      /\ \A c \in CycleIds :
           Len(cycles'[c].requests) > Len(cycles[c].requests)
           => /\ geminiApiKey' # Null
              /\ cycles'[c].requests[Len(cycles'[c].requests)].key # Null ]_vars

C8_Witness ==
  \E c \in CycleIds :
    /\ cycles[c].pc = "done"
    /\ cycles[c].extracted
    /\ cycles[c].outcome = MsgKeyNotConfigured
    /\ CountReq(c, "solution") = 0
    /\ geminiApiKey = Null

\* C9: a queue cycle whose last request was answered with HTTP 429 made no
\* further request and sent an error event carrying the rate-limit message.
C9_RateLimitMessageDelivered ==
  \A c \in CycleIds :
    ( /\ cycles[c].kind = "queue" /\ cycles[c].pc = "done"
      /\ cycles[c].responses # <<>>
      /\ cycles[c].responses[Len(cycles[c].responses)] = RespStatus(429) )
    => /\ Len(cycles[c].requests) = Len(cycles[c].responses)
       /\ \E i \in DOMAIN cycles[c].events :
             /\ cycles[c].events[i].name \in ErrorEvents
             /\ cycles[c].events[i].msg = MsgRateLimit

\* C10: an extraction answer that is JSON but has no non-empty string
\* problem_statement is rejected as a parse error: nothing is stored and no
\* solving request is issued.
C10_ProblemStatementRequired ==
  \A c \in CycleIds :
    ( /\ ExtractionAnswered(c)
      /\ ExtractionValue(c) # SyntaxError
      /\ ~ValidProblemStatement(ExtractionValue(c)) )
    => /\ cycles[c].pc = "done"
       /\ cycles[c].outcome = MsgParse
       /\ ~cycles[c].extracted
       /\ CountReq(c, "solution") = 0

\* the error values makeGeminiRequest gives for a remote HTTP failure, a
\* network failure and a truncated response
RemoteFailureErrors ==
  {makeGeminiRequest(r).message :
     r \in {RespStatus(n) : n \in HttpErrorStatuses}
             \cup {RespNetwork, RespCandidate("MAX_TOKENS", <<PROSE>>)}}

\* C11: a cycle whose last request was answered 2xx with no candidates, or
\* with a first candidate that has no content, ends with an error value that
\* differs from the error values of an HTTP failure, a network failure and a
\* truncated response.
C11_EmptyResponseDistinguishable ==
  \A c \in CycleIds :
    ( /\ cycles[c].pc = "done"
      /\ cycles[c].responses # <<>>
      /\ cycles[c].responses[Len(cycles[c].responses)] \in {RespNoCandidates, RespNoContent} )
    => cycles[c].outcome \notin RemoteFailureErrors

\* C12: every solving request names gemini-2.5-pro when the extracted
\* problem type is MCQ, and the configured solutionModel when it is not.
C12_SolvingModelByProblemType ==
  \A c \in CycleIds :
    \A i \in DOMAIN cycles[c].requests :
      (cycles[c].requests[i].phase = "solution" /\ cycles[c].images > 0)
      => cycles[c].requests[i].model =
           (IF IsMCQ(cycles[c].info) THEN "gemini-2.5-pro" ELSE config.solutionModel)

\* C13: every step that ends a queue-view cycle in a fatal outcome (missing
\* key, no usable input, parse error, remote error, failed solving phase)
\* leaves the view "queue", the cycle's controller no longer stored, and no
\* problem info extracted by that cycle stored.
C13_FatalOutcomeResetsState ==
  [][ \A c \in CycleIds :
        ( /\ cycles[c].pc # "done" /\ cycles'[c].pc = "done"
          /\ \/ cycles'[c].kind = "queue"
             \/ (cycles'[c].outcome = "no-key" /\ view = "queue")
          /\ cycles'[c].outcome \notin {"success", MsgCanceled} )
        => /\ view' = "queue"
           /\ currentProcessingAbortController' # c
           /\ ( /\ cycles'[c].extracted
                /\ cycles'[c].images > 0
                /\ ValidProblemStatement(ParseExtraction(cycles'[c].responses[1].text)) )
                => \/ problemInfo' = JNull
                   \/ problemInfo' # ParseExtraction(cycles'[c].responses[1].text) ]_vars

\* ---------------------------------------------------- the Solutions page
\* the onSolutionSuccess handler: the state the page keeps of the data (a
\* field the data lacks, or an empty one, becomes null)
onSolutionSuccess(data) ==
  LET field(name) == IF name \in DOMAIN data /\ data[name] # NoText
                     THEN data[name] ELSE Null
  IN [solutionData |-> field("code"),
      thoughtsData |-> field("thoughts"),
      timeComplexityData |-> field("time_complexity"),
      spaceComplexityData |-> field("space_complexity")]

\* isLoading of the ComplexitySection
ComplexityIsLoading(page) ==
  page.timeComplexityData = Null \/ page.spaceComplexityData = Null

\* a queue cycle that ended with SOLUTION_SUCCESS, with a readable
\* screenshot and a well-formed extracted problem
Succeeded(c) ==
  /\ cycles[c].kind = "queue" /\ cycles[c].pc = "done"
  /\ cycles[c].outcome = "success"
  /\ HasEvent(c, "SOLUTION_SUCCESS")
  /\ cycles[c].images > 0
  /\ ValidProblemStatement(cycles[c].info)
\* the text of the answer to the solving request of a succeeded cycle
SolvingText(c) == cycles[c].responses[Len(cycles[c].responses)].text

\* C14: when the extraction answer is valid JSON and the solving answer is a
\* candidate with a text, the result sent with SOLUTION_SUCCESS has a
\* non-empty code field.
C14_SuccessHasContent ==
  \A c \in CycleIds :
    (Succeeded(c) /\ SolvingText(c) # NoText) => cycles[c].data.code # NoText

\* C15: the result sent with SOLUTION_SUCCESS carries a time complexity and
\* a space complexity, so that the complexity section of the Solutions page
\* is not loading after the event.
C15_ComplexityDelivered ==
  \A c \in CycleIds :
    Succeeded(c)
    => /\ "time_complexity" \in DOMAIN cycles[c].data
       /\ "space_complexity" \in DOMAIN cycles[c].data
       /\ ~ComplexityIsLoading(onSolutionSuccess(cycles[c].data))

\* C16: the thoughts of a solution result are at most 4 and never empty:
\* either lines of more than 10 characters taken from the answer, or
\* exactly the one fallback insight of the problem type.
C16_ThoughtsBounded ==
  \A c \in CycleIds :
    Succeeded(c)
    => LET th == cycles[c].data.thoughts
       IN /\ Len(th) >= 1 /\ Len(th) <= 4
          /\ \/ th = FallbackThoughts(cycles[c].info)
             \/ \A i \in DOMAIN th :
                  /\ LineLength(th[i]) > 10
                  /\ \E j, k \in DOMAIN SolvingText(c) : SubSeq(SolvingText(c), j, k) = th[i]

C16_Witness ==
  \E c \in CycleIds :
    /\ Succeeded(c) /\ SolvingText(c) = FiveBullets
    /\ cycles[c].data.thoughts = <<<<LONGTEXT>>, <<LONGTEXT>>, <<LONGTEXT>>, <<LONGTEXT>>>>

\* C17: for an MCQ problem the code field of the result is the whole
\* solving answer, also when the answer holds a fenced block.
C17_McqContentIsWholeResponse ==
  \A c \in CycleIds :
    (Succeeded(c) /\ IsMCQ(cycles[c].info)) => cycles[c].data.code = SolvingText(c)

\* C18: for a coding problem the code field is the trimmed body of the
\* first fenced block of the solving answer, and the trimmed whole answer
\* when it has no fenced block.
C18_CodingContentTrimmed ==
  \A c \in CycleIds :
    (Succeeded(c) /\ ~IsMCQ(cycles[c].info))
    => cycles[c].data.code =
         (IF CodeMatch(SolvingText(c)).matched
          THEN Trim(CodeMatch(SolvingText(c)).group)
          ELSE Trim(SolvingText(c)))

\* C19: when the extraction answer is already clean JSON (it parses as it
\* is), the fence stripping leaves it unaltered: the problem info the cycle
\* works with is the value of the answer as it was sent.
C19_CleanJsonUnaltered ==
  \A c \in CycleIds :
    ( /\ ExtractionAnswered(c)
      /\ cycles[c].extracted
      /\ cycles[c].info # JNull
      /\ JSONParse(Trim(cycles[c].responses[1].text)) # SyntaxError )
    => cycles[c].info = JSONParse(Trim(cycles[c].responses[1].text))

\* position of the first event called name among the events of cycle c, 0
\* when there is none
EventIndex(c, name) ==
  IF HasEvent(c, name)
  THEN CHOOSE i \in DOMAIN cycles[c].events :
         /\ cycles[c].events[i].name = name
         /\ \A j \in 1..(i - 1) : cycles[c].events[j].name # name
  ELSE 0

\* the order of the steps of a queue cycle, on its events and requests
StepsInOrder(c) ==
  LET ev == cycles[c].events
      rq == cycles[c].requests
      pe == EventIndex(c, "PROBLEM_EXTRACTED")
  IN /\ ev # <<>> => ev[1].name = "INITIAL_START"
     /\ rq # <<>> => (rq[1].phase = "extraction" /\ rq[1].sent >= 1)
     /\ pe # 0 => /\ rq # <<>> /\ pe > rq[1].sent
                  /\ ExtractionAnswered(c) /\ ExtractionValue(c) # SyntaxError
                  /\ cycles[c].extracted
     /\ \A i \in 2..Len(rq) :
          /\ rq[i].phase = "solution"
          /\ rq[i].images = 0
          /\ pe # 0 /\ rq[i].sent >= pe
     /\ \A j \in DOMAIN ev :
          ev[j].name = "SOLUTION_SUCCESS"
          => /\ pe # 0 /\ j > pe
             /\ Len(rq) >= 2 /\ j > rq[Len(rq)].sent

\* C20: in every queue cycle INITIAL_START comes first, the extraction
\* request follows, PROBLEM_EXTRACTED is sent only after that request was
\* answered with text that parsed (the parsed value being stored in the
\* step that sends it), every solving request comes after PROBLEM_EXTRACTED
\* and has no image part, and SOLUTION_SUCCESS comes after PROBLEM_EXTRACTED
\* and after the solving request.
C20_StepsInOrder ==
  /\ [](\A c \in CycleIds : cycles[c].kind = "queue" => StepsInOrder(c))
  /\ [][ \A c \in CycleIds :
           (~HasEvent(c, "PROBLEM_EXTRACTED") /\ cycles'[c].extracted)
           => problemInfo' = ParseExtraction(cycles'[c].responses[1].text) ]_vars

C20_Witness ==
  \E c \in CycleIds :
    /\ Succeeded(c)
    /\ Len(cycles[c].requests) = 2
    /\ cycles[c].requests[1].images > 0
    /\ EventIndex(c, "PROBLEM_EXTRACTED") = 4
    /\ cycles[c].requests[2].sent = 5

\* C21: retry revision: when a solving request of a cycle (not cancelled,
\* key configured) is answered with MAX_TOKENS and attempts are left, the
\* cycle sends a further solving request, and that request carries the
\* short prompt chosen in the catch block, not the full prompt.
C21_RetrySendsShortPrompt ==
  \A c \in CycleIds :
    ( /\ cycles[c].kind = "queue" /\ cycles[c].pc = "done"
      /\ cycles[c].images > 0
      /\ ValidProblemStatement(cycles[c].info)
      /\ cycles[c].outcome \notin {MsgCanceled, MsgKeyNotConfigured}
      /\ Len(cycles[c].responses) >= 2
      /\ cycles[c].responses[2] = Truncated )
    => /\ CountReq(c, "solution") >= 2
       /\ cycles[c].requests[3].template = ShortPrompt(cycles[c].info)

\* C22: whenever a cycle waits for a remote answer on a signal that was not
\* aborted, the helper stores that cycle's controller (so that
\* cancelOngoingRequests would abort it).
C22_InFlightControllerStored ==
  \A c \in CycleIds :
    /\ (cycles[c].pc \in {"extract", "solve"} /\ cycles[c].ctrl \notin aborted)
         => currentProcessingAbortController = cycles[c].ctrl
    /\ (cycles[c].pc = "debug" /\ cycles[c].ctrl \notin aborted)
         => currentExtraProcessingAbortController = cycles[c].ctrl

\* C23: a finished queue cycle that got past the empty-queue check has sent
\* exactly one terminal event: one SOLUTION_SUCCESS or one error event.
C23_OneTerminalEvent ==
  \A c \in CycleIds :
    (cycles[c].kind = "queue" /\ cycles[c].pc = "done" /\ cycles[c].ctrl # NoController)
    => Cardinality({i \in DOMAIN cycles[c].events :
                      cycles[c].events[i].name \in
                        {"SOLUTION_SUCCESS", "INITIAL_SOLUTION_ERROR", "API_KEY_INVALID"}}) = 1

\* C24: a queue cycle sends API_KEY_INVALID only when the key is missing or
\* the remote answered HTTP 403.
C24_KeyInvalidOnlyForCredential ==
  \A c \in CycleIds :
    (cycles[c].pc = "done" /\ HasEvent(c, "API_KEY_INVALID"))
    => \/ cycles[c].outcome \in {"no-key", MsgKeyNotConfigured}
       \/ /\ cycles[c].responses # <<>>
          /\ cycles[c].responses[Len(cycles[c].responses)] = RespStatus(403)

\* a step that changes the opacity of the stored config and nothing else of it
OpacityOnlyStep ==
  /\ config'.opacity # config.opacity
  /\ \A f \in DOMAIN config \ {"opacity"} : config'[f] = config[f]

\* C25: once the stored key is empty the helper holds no key, every cycle
\* started while it stays empty sends API_KEY_INVALID alone and no cycle
\* posts a request; a step that changes only the opacity leaves the helper's
\* key and language cache as they were.
C25_ClearedKeyStopsRequests ==
  [][ /\ (config.apiKey # "" /\ config'.apiKey = "") =>
            (geminiApiKey' = Null /\ languageCache' = Null)
      /\ (config.apiKey = "" /\ config'.apiKey = "") =>
            \A c \in CycleIds :
              /\ Len(cycles'[c].requests) = Len(cycles[c].requests)
              /\ (cycles[c].pc = "idle" /\ cycles'[c].pc # "idle") =>
                    /\ cycles'[c].pc = "done"
                    /\ cycles'[c].events = <<Ev("API_KEY_INVALID", "")>>
      /\ OpacityOnlyStep =>
            (geminiApiKey' = geminiApiKey /\ languageCache' = languageCache)
    ]_vars
\* a cycle posted a request, the key was cleared and a later cycle ended with
\* API_KEY_INVALID alone; the opacity has been changed
C25_Witness ==
  /\ config.apiKey = ""
  /\ \E c1, c2 \in CycleIds :
       /\ c1 < c2
       /\ cycles[c1].requests # <<>>
       /\ cycles[c2].pc = "done"
       /\ cycles[c2].events = <<Ev("API_KEY_INVALID", "")>>
       /\ cycles[c2].requests = <<>>
  /\ config.opacity # defaultConfig.opacity

\* no cycle waits for a read or a remote answer
NoCycleInFlight == \A c \in CycleIds : cycles[c].pc \in {"idle", "done"}

\* C26: when every pending read and request settles, every started cycle
\* ends; when no cycle is in flight no abort controller is stored; a cycle
\* of the current revision polls the window at most 30 times per language
\* lookup, and a cycle posts at most 3 solving requests.
C26_CyclesTerminate ==
  /\ \A c \in CycleIds :
       (cycles[c].pc \notin {"idle", "done"}) ~> (cycles[c].pc = "done")
  /\ [](NoCycleInFlight => StoredControllers = {})
  /\ [](\A c \in CycleIds :
          /\ revision = "current" => cycles[c].polls <= 30
          /\ CountReq(c, "solution") <= 3)
\* a cycle of the current revision has polled the window 30 times, had its
\* request answered and ended, and nothing is in flight
C26_Witness ==
  /\ revision = "current"
  /\ NoCycleInFlight
  /\ \E c \in CycleIds :
       /\ cycles[c].pc = "done"
       /\ cycles[c].polls = 30
       /\ cycles[c].responses # <<>>

\* the cycles whose controller was aborted
CancelledCycles ==
  {c \in CycleIds : cycles[c].ctrl # NoController /\ cycles[c].ctrl \in aborted}
\* the state cancelOngoingRequests leaves
IsReset ==
  /\ currentProcessingAbortController = NoController
  /\ currentExtraProcessingAbortController = NoController
  /\ problemInfo = JNull
  /\ hasDebugged = FALSE
  /\ languageCache = Null

\* C27: cancelOngoingRequests called while no cycle is in flight sends no
\* event and aborts nothing; every call leaves both controllers null, the
\* problem info null, hasDebugged false and the language cache empty, and a
\* call made in that state changes nothing; NO_SCREENSHOTS is sent at most
\* once per cancelled cycle.
C27_IdleCancelSilent ==
  /\ [](cancelNotices <= Cardinality(CancelledCycles))
  /\ [][ cancelOngoingRequests =>
           /\ NoCycleInFlight =>
                 (cancelNotices' = cancelNotices /\ aborted' = aborted /\ cycles' = cycles)
           /\ IsReset'
           /\ IsReset => UNCHANGED vars
        ]_vars
\* the one cycle started has succeeded and stored its problem; nothing was
\* ever aborted and no notice sent, yet the problem info is null again
C27_Witness ==
  /\ started = 1 /\ Succeeded(1)
  /\ NoCycleInFlight
  /\ IsReset
  /\ aborted = {} /\ cancelNotices = 0

\* the second request of the cycle is its solving request
HasSolvingRequest(c) ==
  Len(cycles[c].requests) >= 2 /\ cycles[c].requests[2].phase = "solution"

\* C28: in the optimized revision, where the configured language never
\* changes, the solving prompt of a coding problem names the configured
\* language, and two cycles that extracted the same problem post the same
\* solving prompt.
C28_SolvingLanguageConfigured ==
  /\ \A c \in CycleIds :
       (HasSolvingRequest(c) /\ cycles[c].requests[2].template = "CODING")
         => cycles[c].requests[2].language = config.language
  /\ \A c1, c2 \in CycleIds :
       (HasSolvingRequest(c1) /\ HasSolvingRequest(c2) /\ cycles[c1].info = cycles[c2].info)
         => /\ cycles[c1].requests[2].template = cycles[c2].requests[2].template
            /\ cycles[c1].requests[2].language = cycles[c2].requests[2].language

\* the config names the provider gemini and allowed models
IsSanitized(cfg) ==
  /\ cfg.apiProvider = "gemini"
  /\ \A f \in ModelFields : cfg[f] \in allowedModels

\* C29: the stored config and the config loadConfig returns name the provider
\* gemini and, for extraction, solution and debugging, a model of the allowed
\* set.
C29_ConfigModelsAllowed == IsSanitized(config) /\ IsSanitized(loadConfig)

\* steps of a debug cycle: its start without problem info, its end with
\* DEBUG_ERROR and no request, and the step that sets hasDebugged
StartsDebugWithoutInfo(c) ==
  /\ cycles[c].pc = "idle" /\ cycles'[c].pc # "idle"
  /\ view # "queue"
  /\ ~Truthy(problemInfo)
EndsWithDebugError(c) ==
  /\ cycles'[c].requests = <<>>
  /\ cycles'[c].pc = "done"
  /\ cycles'[c].events # <<>>
  /\ cycles'[c].events[Len(cycles'[c].events)].name = "DEBUG_ERROR"
HasDebuggedOnlyBySuccess ==
  (~hasDebugged /\ hasDebugged') =>
     \E c \in CycleIds :
       /\ cycles[c].kind = "debug" /\ cycles[c].pc = "debug"
       /\ cycles'[c].pc = "done" /\ cycles'[c].outcome = "success"
       /\ ~makeGeminiRequest(cycles'[c].responses[Len(cycles'[c].responses)]).threw

\* C30: a cycle started while the view is not queue and no problem info is
\* stored posts no request and ends with DEBUG_ERROR; hasDebugged becomes
\* true only in the step in which a debug cycle receives the answer to its
\* request and ends with success.
C30_DebugWithoutInfo ==
  [][ /\ \A c \in CycleIds : StartsDebugWithoutInfo(c) => EndsWithDebugError(c)
      /\ HasDebuggedOnlyBySuccess ]_vars
\* C30, for a cycle started with a key available and a non-empty extra
\* queue: it posts no request and ends with DEBUG_ERROR when no problem info
\* is stored; hasDebugged becomes true only by a successful debug cycle.
C30_DebugWithoutInfoQueued ==
  [][ /\ \A c \in CycleIds :
           ( /\ StartsDebugWithoutInfo(c)
             /\ (geminiApiKey # Null \/ initializeGeminiClient # Null)
             /\ extraScreenshotQueue # <<>> )
           => EndsWithDebugError(c)
      /\ HasDebuggedOnlyBySuccess ]_vars
\* a debug cycle that found no problem info sent DEBUG_START and DEBUG_ERROR
\* and posted no request
C30_Witness ==
  \E c \in CycleIds :
    /\ cycles[c].kind = "debug" /\ cycles[c].pc = "done"
    /\ cycles[c].requests = <<>>
    /\ cycles[c].events = <<Ev("DEBUG_START", ""), Ev("DEBUG_ERROR", MsgNoProblemInfo)>>

====
